---- MODULE Spec2Model ----
(***************************************************************************)
(* Model of the Express + PostgreSQL CRUD service of index.js: the users   *)
(* and todo tables, and every route handler as a sequence of steps, one    *)
(* per awaited pool.query.  Handlers of different requests interleave at   *)
(* their awaits; each SQL statement executes atomically in the database.   *)
(***************************************************************************)
EXTENDS Integers, Sequences, FiniteSets, TLC

VARIABLES users,    \* rows of table users
          todo,     \* rows of table todo
          userSeq,  \* next value of users.id (generated)
          todoSeq,  \* next value of todo.id (SERIAL)
          req,      \* the requests in flight, one record per slot
          clients,  \* how many clients are sending requests
          deleted,  \* ids of the todo rows a deleteTodo answered 200 for
          created   \* the rows createTodo answered 201 with for a request
                    \* without a status, until updated or deleted

vars == <<users, todo, userSeq, todoSeq, req, clients, deleted, created>>

(***************************************************************************)
(* Bounds of the model.                                                    *)
(***************************************************************************)
MaxReq == 2       \* requests that may be in flight together
MaxTodo == 2      \* todo rows ever created
MaxUsers == 4     \* user rows ever present (seeded or created)

Slots == 1..MaxReq

(***************************************************************************)
(* JavaScript values of a JSON body field.  A string is the sequence of    *)
(* its characters; "number" stands for a non-zero number such as 7.        *)
(***************************************************************************)
Undefined == [k |-> "undefined", s |-> <<>>]
Null == [k |-> "null", s |-> <<>>]
Number == [k |-> "number", s |-> <<>>]
Str(s) == [k |-> "string", s |-> s]

IsString(v) == v.k = "string"

\* The test v !== undefined in place of truthiness.
IsDefined(v) == v.k # "undefined"

\* JavaScript truthiness: !v is true for undefined, null and "".
Truthy(v) == \/ v.k = "number"
             \/ v.k = "string" /\ v.s # <<>>

\* v.trim() and v.toLowerCase() throw a TypeError unless v is a string.
HasStringMethods(v) == IsString(v)

Whitespace == {" "}

RECURSIVE TrimStart(_)
TrimStart(s) ==
  IF s # <<>> /\ Head(s) \in Whitespace THEN TrimStart(Tail(s)) ELSE s

RECURSIVE TrimEnd(_)
TrimEnd(s) ==
  IF s # <<>> /\ s[Len(s)] \in Whitespace
  THEN TrimEnd(SubSeq(s, 1, Len(s) - 1))
  ELSE s

\* String.prototype.trim
Trim(s) == TrimEnd(TrimStart(s))

LowerChar(c) ==
  CASE c = "A" -> "a"
    [] c = "B" -> "b"
    [] c = "C" -> "c"
    [] OTHER -> c

\* toLowerCase left out: the string as given.
KeepCase(s) == s

\* String.prototype.toLowerCase
ToLowerCase(s) == [i \in 1..Len(s) |-> LowerChar(s[i])]

(***************************************************************************)
(* parseInt(string) without a radix: leading white space is skipped, a     *)
(* sign is read, a 0x / 0X prefix selects radix 16, and the longest prefix *)
(* of digits is converted; NaN when there is no digit.  A result whose     *)
(* magnitude exceeds MaxInt4 is kept as Beyond, without its value: all the *)
(* handlers do with such a number is pass it to a query on an integer      *)
(* column.  (-2^31, the one such number that column holds, is not an input *)
(* of the model.)                                                          *)
(***************************************************************************)
MaxInt4 == 2147483647

NaN == [nan |-> TRUE, beyond |-> FALSE, n |-> 0]
Finite(n) == [nan |-> FALSE, beyond |-> FALSE, n |-> n]
Beyond == [nan |-> FALSE, beyond |-> TRUE, n |-> 0]
isNaN(v) == v.nan

DecDigits == <<"0", "1", "2", "3", "4", "5", "6", "7", "8", "9">>
HexDigits == DecDigits \o <<"a", "b", "c", "d", "e", "f">>

DigitsOf(radix) == IF radix = 16 THEN HexDigits ELSE DecDigits

IsDigit(c, radix) == \E i \in 1..Len(DigitsOf(radix)) : DigitsOf(radix)[i] = c

DigitValue(c, radix) ==
  (CHOOSE i \in 1..Len(DigitsOf(radix)) : DigitsOf(radix)[i] = c) - 1

\* The number of leading characters of s that are digits of the radix.
RECURSIVE DigitPrefixLen(_, _)
DigitPrefixLen(s, radix) ==
  IF s # <<>> /\ IsDigit(Head(s), radix)
  THEN 1 + DigitPrefixLen(Tail(s), radix)
  ELSE 0

\* The value of a digit string, given the value acc of the digits before it.
RECURSIVE DigitsToNumber(_, _, _)
DigitsToNumber(s, radix, acc) ==
  IF s = <<>> THEN Finite(acc)
  ELSE IF acc > (MaxInt4 - DigitValue(Head(s), radix)) \div radix THEN Beyond
  ELSE DigitsToNumber(Tail(s), radix, acc * radix + DigitValue(Head(s), radix))

HasHexPrefix(s) == Len(s) >= 2 /\ s[1] = "0" /\ s[2] \in {"x", "X"}

ParseUnsigned(s) ==
  LET radix == IF HasHexPrefix(s) THEN 16 ELSE 10
      rest == IF HasHexPrefix(s) THEN SubSeq(s, 3, Len(s)) ELSE s
      n == DigitPrefixLen(rest, radix)
  IN IF n = 0 THEN NaN ELSE DigitsToNumber(SubSeq(rest, 1, n), radix, 0)

parseInt(str) ==
  LET s == TrimStart(str)
      neg == s # <<>> /\ Head(s) = "-"
      signed == s # <<>> /\ Head(s) \in {"-", "+"}
      u == ParseUnsigned(IF signed THEN Tail(s) ELSE s)
  IN IF isNaN(u) \/ u.beyond \/ ~neg THEN u ELSE Finite(0 - u.n)

(***************************************************************************)
(* The inputs of the model: path segments and body fields.                 *)
(***************************************************************************)
\* 2^31 written out: the smallest id beyond PostgreSQL's integer type.
OutOfRangeSegment == <<"2", "1", "4", "7", "4", "8", "3", "6", "4", "8">>

PathSegments ==
  { <<"1">>, <<"2">>, <<"3">>, <<"a">>, <<"1", "a">>, <<"0", "x", "2">>,
    OutOfRangeSegment }

ToDo == <<"T", "o", " ", "D", "o">>
InProgress == <<"I", "n", " ", "P", "r", "o", "g", "r", "e", "s", "s">>
Done == <<"D", "o", "n", "e">>

NoBody ==
  [name |-> Undefined, email |-> Undefined, password |-> Undefined,
   title |-> Undefined, status |-> Undefined, description |-> Undefined]

UserBody(name, email, password) ==
  [NoBody EXCEPT !.name = name, !.email = email, !.password = password]

TodoBody(title, status, description) ==
  [NoBody EXCEPT !.title = title, !.status = status, !.description = description]

NameInputs == {Undefined, Str(<<" ", "n">>), Number}
EmailInputs == {Str(<<>>), Str(<<"A">>), Str(<<" ", "C">>), Number}
PasswordInputs == {Undefined, Str(<<"p">>)}

UserBodyInputs ==
  {UserBody(name, email, password) :
     name \in NameInputs, email \in EmailInputs, password \in PasswordInputs}

TodoBodyInputs ==
  { TodoBody(Undefined, Undefined, Undefined),
    TodoBody(Str(<<" ", "t">>), Undefined, Undefined),
    TodoBody(Str(<<" ">>), Undefined, Undefined),
    TodoBody(Number, Undefined, Undefined),
    TodoBody(Str(<<>>), Str(Done), Str(<<" ", "d">>)),
    TodoBody(Null, Str(<<"d", "o", "n", "e">>), Undefined),
    TodoBody(Str(<<" ", "t">>), Str(Done), Str(<<" ", "d">>)),
    TodoBody(Str(<<" ", "t">>), Str(<<"d", "o", "n", "e">>), Undefined),
    TodoBody(Str(<<" ", "t">>), Str(<<>>), Null),
    TodoBody(Str(<<" ", "t">>), Undefined, Number),
    TodoBody(Undefined, Str(ToDo), Undefined),
    TodoBody(Undefined, Str(InProgress), Undefined),
    TodoBody(Undefined, Str(Done), Str(<<" ", "d">>)),
    TodoBody(Undefined, Str(<<"d", "o", "n", "e">>), Undefined),
    TodoBody(Undefined, Null, Undefined),
    TodoBody(Undefined, Undefined, Null),
    TodoBody(Undefined, Undefined, Str(<<" ", "d">>)) }

\* A lone client sends any request of the model, one at a time.  Several
\* clients send, side by side, the requests that meet: writes to the same
\* id, with the same new email.
Wide == clients = 1

Segments == IF Wide THEN PathSegments ELSE {<<"1">>, <<"2">>}
UserBodies ==
  IF Wide THEN UserBodyInputs
  ELSE {UserBody(Str(<<"m">>), Str(<<"c">>), Undefined),
        UserBody(Str(<<"m">>), Str(<<"C">>), Undefined)}
TodoBodies ==
  IF Wide THEN TodoBodyInputs
  ELSE {TodoBody(Str(<<"t">>), Str(InProgress), Undefined)}
Reads == {"listUsers", "getUser", "listTodos", "getTodo"}

\* Slot r is free for a request to op.
Accepts(r, op) ==
  /\ req[r].pc = "idle"
  /\ r <= clients
  /\ Wide \/ op \notin Reads

(***************************************************************************)
(* The database.  A query either is rejected (pool.query rejects and the   *)
(* handler's catch block runs) or returns its rows.                        *)
(***************************************************************************)
\* A parameter compared with an integer column must fit the column's type:
\* todo.id is SERIAL, users.id an integer.
TodoIdFits(v) == ~v.beyond
UserIdFits(v) == ~v.beyond

Rejected == [ok |-> FALSE, rows |-> <<>>]
Rows(rs) == [ok |-> TRUE, rows |-> rs]

\* The rows of a set in descending id order (ORDER BY id DESC).
RECURSIVE OrderByIdDesc(_)
OrderByIdDesc(rs) ==
  IF rs = {} THEN <<>>
  ELSE LET first == CHOOSE x \in rs : \A y \in rs : x.id >= y.id
       IN <<first>> \o OrderByIdDesc(rs \ {first})

\* The rows of a set in ascending id order (ORDER BY id).
RECURSIVE OrderById(_)
OrderById(rs) ==
  IF rs = {} THEN <<>>
  ELSE LET first == CHOOSE x \in rs : \A y \in rs : x.id <= y.id
       IN <<first>> \o OrderById(rs \ {first})

\* node-postgres sends undefined and null as NULL and a number as its text.
PgText(v) ==
  CASE v.k \in {"undefined", "null"} -> Null
    [] v.k = "number" -> Str(<<"7">>)
    [] OTHER -> v

\* The table users as the migration leaves it: emails lowercased, unique.
SeedUsers ==
  { [id |-> 1, name |-> <<"x">>, email |-> <<"a">>, password |-> Str(<<"p">>)],
    [id |-> 2, name |-> <<"y">>, email |-> <<"b">>, password |-> Null] }

\* SELECT * FROM users ORDER BY id
SelectAllUsers == Rows(OrderById(users))

\* SELECT * FROM users WHERE id = $1
SelectUserById(id) ==
  IF UserIdFits(id) THEN Rows(OrderById({u \in users : u.id = id.n}))
  ELSE Rejected

\* The pre-check as it would be if it also saw the email of a request that
\* has passed its own pre-check and not yet inserted.
SelectUserByEmailOrPending(email) ==
  Rows(OrderById(
    {u \in users : u.email = email}
    \cup {[id |-> 0, name |-> <<>>, email |-> email, password |-> Null] :
            o \in {o \in 1..MaxReq :
                     /\ req[o].op = "createUser" /\ req[o].pc = "insert"
                     /\ ToLowerCase(req[o].body.email.s) = email}}))

\* SELECT id FROM users WHERE email = $1
SelectUserByEmail(email) == Rows(OrderById({u \in users : u.email = email}))

\* SELECT id FROM users WHERE email = $1 AND id != $2
SelectOtherUserByEmail(email, id) ==
  IF UserIdFits(id)
  THEN Rows(OrderById({u \in users : u.email = email /\ u.id # id.n}))
  ELSE Rejected

\* INSERT INTO users (name, email, password) VALUES ($1, $2, $3, $4):
\* the statement names 3 target columns and 4 expressions, and the call
\* passes 3 parameters.
InsertUserTargets == 3
InsertUserPlaceholders == 4
InsertUserParams == 3

\* The INSERT as the database would take it with as many expressions and
\* parameters as target columns.
InsertUserAcceptedMatching == InsertUserParams <= InsertUserTargets

InsertUserAccepted ==
  /\ InsertUserPlaceholders <= InsertUserTargets
  /\ InsertUserPlaceholders = InsertUserParams

InsertedUser(name, email, password) ==
  [id |-> userSeq, name |-> name, email |-> email, password |-> PgText(password)]

\* UPDATE users SET name = $1, email = $2, password = $3 WHERE id = $5:
\* the highest placeholder is $5 ($4 is never used) and the call passes 4
\* parameters.
UpdateUserHighestPlaceholder == 5
UpdateUserParams == 4

UpdateUserAccepted == UpdateUserHighestPlaceholder = UpdateUserParams

UpdatedUser(u, name, email, password) ==
  [u EXCEPT !.name = name, !.email = email, !.password = PgText(password)]

\* DELETE FROM users WHERE id = $1 RETURNING *
DeleteUserById(id) == SelectUserById(id)

\* SELECT * FROM todo ORDER BY id
SelectAllTodo == Rows(OrderById(todo))

\* The SELECT with <= in place of = in its WHERE clause.
SelectTodoByIdAtMost(id) ==
  IF TodoIdFits(id) THEN Rows(OrderById({t \in todo : t.id <= id.n}))
  ELSE Rejected

\* SELECT * FROM todo WHERE id = $1
SelectTodoById(id) ==
  IF TodoIdFits(id) THEN Rows(OrderById({t \in todo : t.id = id.n}))
  ELSE Rejected

\* An INSERT that gives the row the lowest id no stored row has.
InsertedTodoLowestFreeId(title, status, description) ==
  [id |-> CHOOSE i \in 1..(Cardinality(todo) + 1) :
            /\ \A t \in todo : t.id # i
            /\ \A j \in 1..(i - 1) : \E t \in todo : t.id = j,
   title |-> title, status |-> status,
   description |-> description, date |-> todoSeq]

\* INSERT INTO todo (title, status, description) VALUES ($1, $2, $3): id is
\* the next value of the sequence and date is CURRENT_TIMESTAMP, which the
\* model reads off the same counter.  (The status column's enum type holds
\* exactly the handlers' validStatuses.)
InsertedTodo(title, status, description) ==
  [id |-> todoSeq, title |-> title, status |-> status,
   description |-> description, date |-> todoSeq]

\* An UPDATE that also moves a row out of "To Do" when the body supplies no
\* status.
UpdatedTodoStartsProgress(t, set) ==
  [c \in DOMAIN t |->
     IF c \in DOMAIN set THEN set[c]
     ELSE IF c = "status" /\ t.status = ToDo THEN InProgress
     ELSE t[c]]

\* An UPDATE that names all three columns, with NULL for a column the body
\* does not supply.
UpdatedTodoAllColumns(t, set) ==
  [c \in DOMAIN t |->
     IF c \in DOMAIN set THEN set[c]
     ELSE IF c = "description" THEN Null
     ELSE t[c]]

\* UPDATE todo SET <the supplied columns> WHERE id = $1: set is the record
\* of the columns the statement names, each with its parameter.
UpdatedTodo(t, set) ==
  [c \in DOMAIN t |-> IF c \in DOMAIN set THEN set[c] ELSE t[c]]

\* The DELETE without its WHERE clause.
DeleteTodoEveryRow(id) == SelectAllTodo

\* DELETE FROM todo WHERE id = $1 RETURNING *
DeleteTodoById(id) == SelectTodoById(id)

(***************************************************************************)
(* Requests.  A slot holds one request from its arrival to its response.   *)
(* pc is the query the handler is waiting on; code, error and out are the  *)
(* response (out: the row or rows the JSON body carries, <<>> when the     *)
(* body carries none) and sent the number of responses written for the     *)
(* request.  The remaining fields record what happened to the   *)
(* request: queries is the number of statements it sent, fault that the    *)
(* database was unavailable for one of them, threw that a TypeError was    *)
(* thrown, removed the rows its statements deleted, seen the slots whose   *)
(* response had been sent when it arrived, quiet that no other request has *)
(* changed a table since it arrived, and preUsers and preTodo the tables   *)
(* when it arrived (kept while quiet).                                     *)
(***************************************************************************)
IdleReq ==
  [op |-> "none", pc |-> "idle", seg |-> <<>>, body |-> NoBody, id |-> NaN,
   code |-> 0, error |-> "", out |-> <<>>, queries |-> 0, fault |-> FALSE,
   threw |-> FALSE, removed |-> {}, seen |-> {}, preUsers |-> {},
   preTodo |-> {}, quiet |-> TRUE, sent |-> 0]

\* What a request keeps of the tables once another request has changed one.
Disturbed(rq) == [rq EXCEPT !.quiet = FALSE, !.preUsers = {}, !.preTodo = {}]

Arrive(op, seg, body, pc) ==
  [IdleReq EXCEPT !.op = op, !.pc = pc, !.seg = seg, !.body = body,
                  !.id = IF seg = <<>> THEN NaN ELSE parseInt(seg),
                  !.seen = {o \in Slots : req[o].pc = "done"},
                  !.preUsers = users, !.preTodo = todo]

\* A response written a second time on the way out of the handler.
RespondTwice(rq, code, error, out) ==
  [rq EXCEPT !.pc = "done", !.code = code, !.error = error, !.out = out,
             !.sent = @ + 2]

\* res.status(code).json({error, ...}) or res.json(...)
Respond(rq, code, error, out) ==
  [rq EXCEPT !.pc = "done", !.code = code, !.error = error, !.out = out,
             !.sent = @ + 1]

\* The handler awaits the next pool.query.
Await(rq, pc) == [rq EXCEPT !.pc = pc]

\* A statement was sent to the database.
Sent(rq) == [rq EXCEPT !.queries = @ + 1]

InFlight(o) == req[o].pc \notin {"idle", "done"}

\* The create requests that have not reached their INSERT.
Creating(op) == Cardinality({o \in Slots : req[o].op = op /\ InFlight(o)})

\* Slot r moves to rq; the other requests in flight note a changed table.
Commit(r, rq) ==
  req' = [o \in Slots |->
            IF o = r THEN rq
            ELSE IF req[o].pc # "idle" /\ (users' # users \/ todo' # todo)
                 THEN Disturbed(req[o])
                 ELSE req[o]]

At(r, op, pc) == req[r].op = op /\ req[r].pc = pc

InvalidId == "ID inválido"
IncompleteData == "Datos incompletos"
DuplicateEmail == "Email duplicado"
UserNotFound == "Usuario no encontrado"

UsersQueryError == "Error al consultar la base de datos"
CreateUserError == "Error al crear usuario"
UpdateUserError == "Error al actualizar usuario"
DeleteUserError == "Error al eliminar usuario"

\* The catch block of a handler: res.status(500).json({error, message}).
Catch(rq, error) == Respond(rq, 500, error, <<>>)

\* A TypeError thrown inside the try block (a method of a non-string).
Throw(rq, error) == Catch([rq EXCEPT !.threw = TRUE], error)

\* A rejection of pool.query that no catch block handles: the request is
\* over without a response.
Uncaught(rq, error) == [rq EXCEPT !.fault = TRUE, !.pc = "done"]

\* pool.query rejected because the database could not be reached.
Unavailable(rq, error) == Catch([rq EXCEPT !.fault = TRUE], error)

\* result.rows[0] as the response carries it: absent when there is no row.
FirstRow(rs) == IF rs = <<>> THEN <<>> ELSE <<rs[1]>>

RowSet(rs) == {rs[i] : i \in 1..Len(rs)}

(***************************************************************************)
(* GET /api/users                                                          *)
(***************************************************************************)
ListUsersStart(r) ==
  /\ Accepts(r, "listUsers")
  /\ UNCHANGED <<users, todo, userSeq, todoSeq, clients, deleted, created>>
  /\ Commit(r, Arrive("listUsers", <<>>, NoBody, "select"))

ListUsersSelect(r) ==
  /\ At(r, "listUsers", "select")
  /\ UNCHANGED <<users, todo, userSeq, todoSeq, clients, deleted, created>>
  /\ \E fault \in BOOLEAN :
       LET rq == Sent(req[r])
           result == SelectAllUsers
       IN Commit(r, IF fault THEN Unavailable(rq, UsersQueryError)
                    ELSE Respond(rq, 200, "", result.rows))

(***************************************************************************)
(* GET /api/users/:id                                                      *)
(***************************************************************************)
GetUserStart(r) ==
  /\ Accepts(r, "getUser")
  /\ UNCHANGED <<users, todo, userSeq, todoSeq, clients, deleted, created>>
  /\ \E seg \in Segments :
       LET rq == Arrive("getUser", seg, NoBody, "select")
       IN Commit(r, IF isNaN(rq.id) THEN Respond(rq, 400, InvalidId, <<>>)
                    ELSE rq)

GetUserSelect(r) ==
  /\ At(r, "getUser", "select")
  /\ UNCHANGED <<users, todo, userSeq, todoSeq, clients, deleted, created>>
  /\ \E fault \in BOOLEAN :
       LET rq == Sent(req[r])
           result == SelectUserById(rq.id)
       IN Commit(r, IF fault THEN Unavailable(rq, UsersQueryError)
                    ELSE IF ~result.ok THEN Catch(rq, UsersQueryError)
                    ELSE IF Len(result.rows) = 0
                         THEN Respond(rq, 404, UserNotFound, <<>>)
                    ELSE Respond(rq, 200, "", FirstRow(result.rows)))

(***************************************************************************)
(* POST /api/users                                                         *)
(***************************************************************************)
CreateUserStart(r) ==
  /\ Accepts(r, "createUser")
  /\ Cardinality(users) + Creating("createUser") < MaxUsers
  /\ UNCHANGED <<users, todo, userSeq, todoSeq, clients, deleted, created>>
  /\ \E body \in UserBodies :
       LET rq == Arrive("createUser", <<>>, body, "check")
           name == body.name
           email == body.email
       IN Commit(r, IF ~Truthy(name) \/ ~Truthy(email)
                         THEN Respond(rq, 400, IncompleteData, <<>>)
                    ELSE IF ~HasStringMethods(email)
                         THEN Throw(rq, CreateUserError)
                    ELSE rq)

CreateUserCheck(r) ==
  /\ At(r, "createUser", "check")
  /\ UNCHANGED <<users, todo, userSeq, todoSeq, clients, deleted, created>>
  /\ \E fault \in BOOLEAN :
       LET rq == Sent(req[r])
           existingUser == SelectUserByEmail(ToLowerCase(rq.body.email.s))
       IN Commit(r, IF fault THEN Unavailable(rq, CreateUserError)
                    ELSE IF Len(existingUser.rows) > 0
                         THEN Respond(rq, 409, DuplicateEmail, <<>>)
                    ELSE IF ~HasStringMethods(rq.body.name)
                         THEN Throw(rq, CreateUserError)
                    ELSE Await(rq, "insert"))

CreateUserInsert(r) ==
  /\ At(r, "createUser", "insert")
  /\ \E fault \in BOOLEAN :
       LET rq == Sent(req[r])
           row == InsertedUser(Trim(rq.body.name.s),
                               ToLowerCase(Trim(rq.body.email.s)),
                               rq.body.password)
       IN IF fault \/ ~InsertUserAccepted
          THEN /\ UNCHANGED <<users, todo, userSeq, todoSeq, clients, deleted, created>>
               /\ Commit(r, IF fault THEN Unavailable(rq, CreateUserError)
                            ELSE Catch(rq, CreateUserError))
          ELSE /\ users' = users \cup {row}
               /\ userSeq' = userSeq + 1
               /\ UNCHANGED <<todo, todoSeq, clients, deleted, created>>
               /\ Commit(r, Respond(rq, 201, "", <<row>>))

(***************************************************************************)
(* PUT /api/users/:id                                                      *)
(***************************************************************************)
UpdateUserStart(r) ==
  /\ Accepts(r, "updateUser")
  /\ UNCHANGED <<users, todo, userSeq, todoSeq, clients, deleted, created>>
  /\ \E seg \in Segments, body \in UserBodies :
       LET rq == Arrive("updateUser", seg, body, "exists")
           name == body.name
           email == body.email
       IN Commit(r, IF isNaN(rq.id) THEN Respond(rq, 400, InvalidId, <<>>)
                    ELSE IF ~Truthy(name) \/ ~Truthy(email)
                         THEN Respond(rq, 400, IncompleteData, <<>>)
                    ELSE rq)

UpdateUserExists(r) ==
  /\ At(r, "updateUser", "exists")
  /\ UNCHANGED <<users, todo, userSeq, todoSeq, clients, deleted, created>>
  /\ \E fault \in BOOLEAN :
       LET rq == Sent(req[r])
           existingUser == SelectUserById(rq.id)
       IN Commit(r, IF fault THEN Unavailable(rq, UpdateUserError)
                    ELSE IF ~existingUser.ok THEN Catch(rq, UpdateUserError)
                    ELSE IF Len(existingUser.rows) = 0
                         THEN Respond(rq, 404, UserNotFound, <<>>)
                    ELSE IF ~HasStringMethods(rq.body.email)
                         THEN Throw(rq, UpdateUserError)
                    ELSE Await(rq, "emailCheck"))

UpdateUserEmailCheck(r) ==
  /\ At(r, "updateUser", "emailCheck")
  /\ UNCHANGED <<users, todo, userSeq, todoSeq, clients, deleted, created>>
  /\ \E fault \in BOOLEAN :
       LET rq == Sent(req[r])
           emailCheck == SelectOtherUserByEmail(ToLowerCase(rq.body.email.s), rq.id)
       IN Commit(r, IF fault THEN Unavailable(rq, UpdateUserError)
                    ELSE IF ~emailCheck.ok THEN Catch(rq, UpdateUserError)
                    ELSE IF Len(emailCheck.rows) > 0
                         THEN Respond(rq, 409, DuplicateEmail, <<>>)
                    ELSE IF ~HasStringMethods(rq.body.name)
                         THEN Throw(rq, UpdateUserError)
                    ELSE Await(rq, "update"))

UpdateUserUpdate(r) ==
  /\ At(r, "updateUser", "update")
  /\ \E fault \in BOOLEAN :
       LET rq == Sent(req[r])
           target == {u \in users : u.id = rq.id.n}
           updated == {UpdatedUser(u, Trim(rq.body.name.s),
                                   ToLowerCase(Trim(rq.body.email.s)),
                                   rq.body.password) : u \in target}
       IN IF fault \/ ~UpdateUserAccepted
          THEN /\ UNCHANGED <<users, todo, userSeq, todoSeq, clients, deleted, created>>
               /\ Commit(r, IF fault THEN Unavailable(rq, UpdateUserError)
                            ELSE Catch(rq, UpdateUserError))
          ELSE /\ users' = (users \ target) \cup updated
               /\ UNCHANGED <<todo, userSeq, todoSeq, clients, deleted, created>>
               /\ Commit(r, Respond(rq, 200, "", FirstRow(OrderById(updated))))

(***************************************************************************)
(* DELETE /api/users/:id                                                   *)
(***************************************************************************)
DeleteUserStart(r) ==
  /\ Accepts(r, "deleteUser")
  /\ UNCHANGED <<users, todo, userSeq, todoSeq, clients, deleted, created>>
  /\ \E seg \in Segments :
       LET rq == Arrive("deleteUser", seg, NoBody, "exists")
       IN Commit(r, IF isNaN(rq.id) THEN Respond(rq, 400, InvalidId, <<>>)
                    ELSE rq)

DeleteUserExists(r) ==
  /\ At(r, "deleteUser", "exists")
  /\ UNCHANGED <<users, todo, userSeq, todoSeq, clients, deleted, created>>
  /\ \E fault \in BOOLEAN :
       LET rq == Sent(req[r])
           existingUser == SelectUserById(rq.id)
       IN Commit(r, IF fault THEN Unavailable(rq, DeleteUserError)
                    ELSE IF ~existingUser.ok THEN Catch(rq, DeleteUserError)
                    ELSE IF Len(existingUser.rows) = 0
                         THEN Respond(rq, 404, UserNotFound, <<>>)
                    ELSE Await(rq, "delete"))

DeleteUserDelete(r) ==
  /\ At(r, "deleteUser", "delete")
  /\ \E fault \in BOOLEAN :
       LET rq == Sent(req[r])
           result == DeleteUserById(rq.id)
       IN IF fault \/ ~result.ok
          THEN /\ UNCHANGED <<users, todo, userSeq, todoSeq, clients, deleted, created>>
               /\ Commit(r, IF fault THEN Unavailable(rq, DeleteUserError)
                            ELSE Catch(rq, DeleteUserError))
          ELSE /\ users' = users \ RowSet(result.rows)
               /\ UNCHANGED <<todo, userSeq, todoSeq, clients, deleted, created>>
               /\ Commit(r, Respond([rq EXCEPT !.removed = RowSet(result.rows)],
                                    200, "", FirstRow(result.rows)))

(***************************************************************************)
(* The response has been written; the slot takes the next request.         *)
(***************************************************************************)
Finish(r) ==
  /\ req[r].pc = "done"
  /\ UNCHANGED <<users, todo, userSeq, todoSeq, clients, deleted, created>>
  /\ req' = [req EXCEPT ![r] = IdleReq]

InvalidStatus == "Estado inválido"
\* The error text of another 400 in its place.
NoUpdateDataAsIncomplete == "Datos incompletos"

NoUpdateData == "No hay datos para actualizar"
TodoNotFound == "Tarea no encontrada"
ListTodoError == "Error en el servidor"
GetTodoError == "Error al obtener tarea"
CreateTodoError == "Error al crear tarea"
UpdateTodoError == "Error al actualizar tarea"
DeleteTodoError == "Error al eliminar tarea"

\* validStatuses as it would be if the comparison ignored letter case.
validStatusesAnyCase ==
  {Str(ToDo), Str(InProgress), Str(Done), Str(<<"d", "o", "n", "e">>)}

validStatuses == {Str(ToDo), Str(InProgress), Str(Done)}

\* finalStatus with another status as the default.
finalStatusInProgress(status) ==
  IF Truthy(status) THEN status.s ELSE InProgress

\* const finalStatus = status || 'To Do'
finalStatus(status) == IF Truthy(status) THEN status.s ELSE ToDo

\* The description passed on without trim().
GivenOrNull(description) ==
  IF Truthy(description) THEN Str(description.s) ELSE Null

\* description ? description.trim() : null
TrimOrNull(description) ==
  IF Truthy(description) THEN Str(Trim(description.s)) ELSE Null

(***************************************************************************)
(* GET /api/todo                                                           *)
(***************************************************************************)
ListTodosStart(r) ==
  /\ Accepts(r, "listTodos")
  /\ UNCHANGED <<users, todo, userSeq, todoSeq, clients, deleted, created>>
  /\ Commit(r, Arrive("listTodos", <<>>, NoBody, "select"))

ListTodosSelect(r) ==
  /\ At(r, "listTodos", "select")
  /\ UNCHANGED <<users, todo, userSeq, todoSeq, clients, deleted, created>>
  /\ \E fault \in BOOLEAN :
       LET rq == Sent(req[r])
           result == SelectAllTodo
       IN Commit(r, IF fault THEN Unavailable(rq, ListTodoError)
                    ELSE Respond(rq, 200, "", result.rows))

(***************************************************************************)
(* GET /api/todo/:id                                                       *)
(***************************************************************************)
GetTodoStart(r) ==
  /\ Accepts(r, "getTodo")
  /\ UNCHANGED <<users, todo, userSeq, todoSeq, clients, deleted, created>>
  /\ \E seg \in Segments :
       LET rq == Arrive("getTodo", seg, NoBody, "select")
       IN Commit(r, IF isNaN(rq.id) THEN Respond(rq, 400, InvalidId, <<>>)
                    ELSE rq)

GetTodoSelect(r) ==
  /\ At(r, "getTodo", "select")
  /\ UNCHANGED <<users, todo, userSeq, todoSeq, clients, deleted, created>>
  /\ \E fault \in BOOLEAN :
       LET rq == Sent(req[r])
           result == SelectTodoById(rq.id)
       IN Commit(r, IF fault THEN Unavailable(rq, GetTodoError)
                    ELSE IF ~result.ok THEN Catch(rq, GetTodoError)
                    ELSE IF Len(result.rows) = 0
                         THEN Respond(rq, 404, TodoNotFound, <<>>)
                    ELSE Respond(rq, 200, "", FirstRow(result.rows)))

(***************************************************************************)
(* POST /api/todo                                                          *)
(***************************************************************************)
CreateTodoStart(r) ==
  /\ Accepts(r, "createTodo")
  /\ todoSeq + Creating("createTodo") <= MaxTodo
  /\ UNCHANGED <<users, todo, userSeq, todoSeq, clients, deleted, created>>
  /\ \E body \in TodoBodies :
       LET rq == Arrive("createTodo", <<>>, body, "insert")
           title == body.title
           status == body.status
           description == body.description
       IN Commit(r, IF ~Truthy(title)
                         THEN Respond(rq, 400, IncompleteData, <<>>)
                    ELSE IF Truthy(status) /\ status \notin validStatuses
                         THEN Respond(rq, 400, InvalidStatus, <<>>)
                    ELSE IF ~HasStringMethods(title)
                         THEN Throw(rq, CreateTodoError)
                    ELSE IF Truthy(description) /\ ~HasStringMethods(description)
                         THEN Throw(rq, CreateTodoError)
                    ELSE rq)

CreateTodoInsert(r) ==
  /\ At(r, "createTodo", "insert")
  /\ \E fault \in BOOLEAN :
       LET rq == Sent(req[r])
           row == InsertedTodo(Trim(rq.body.title.s), finalStatus(rq.body.status),
                               TrimOrNull(rq.body.description))
       IN IF fault
          THEN /\ UNCHANGED <<users, todo, userSeq, todoSeq, clients, deleted, created>>
               /\ Commit(r, Unavailable(rq, CreateTodoError))
          ELSE /\ todo' = todo \cup {row}
               /\ todoSeq' = todoSeq + 1
               /\ created' = IF rq.body.status = Undefined
                              THEN created \cup {row} ELSE created
               /\ UNCHANGED <<users, userSeq, clients, deleted>>
               /\ Commit(r, Respond(rq, 201, "", <<row>>))

(***************************************************************************)
(* PUT /api/todo/:id                                                       *)
(***************************************************************************)
\* queryParts: the columns whose field the body supplies.
queryParts(body) ==
  {c \in {"title", "status", "description"} : body[c] # Undefined}

UpdateTodoStart(r) ==
  /\ Accepts(r, "updateTodo")
  /\ UNCHANGED <<users, todo, userSeq, todoSeq, clients, deleted, created>>
  /\ \E seg \in Segments, body \in TodoBodies :
       LET rq == Arrive("updateTodo", seg, body, "update")
           title == body.title
           status == body.status
           description == body.description
       IN Commit(r, IF isNaN(rq.id) THEN Respond(rq, 400, InvalidId, <<>>)
                    ELSE IF title = Undefined /\ status = Undefined
                            /\ description = Undefined
                         THEN Respond(rq, 400, NoUpdateData, <<>>)
                    ELSE IF status # Undefined /\ status \notin validStatuses
                         THEN Respond(rq, 400, InvalidStatus, <<>>)
                    ELSE IF title # Undefined /\ ~HasStringMethods(title)
                         THEN Throw(rq, UpdateTodoError)
                    ELSE IF Truthy(description) /\ ~HasStringMethods(description)
                         THEN Throw(rq, UpdateTodoError)
                    ELSE IF queryParts(body) = {}
                         THEN Respond(rq, 400, NoUpdateData, <<>>)
                    ELSE rq)

\* queryParts and queryParams: the columns the UPDATE names, with their values.
UpdateTodoSet(body) ==
  [c \in queryParts(body) |->
        CASE c = "title" -> Trim(body.title.s)
          [] c = "status" -> body.status.s
          [] c = "description" -> TrimOrNull(body.description)]

\* updateTodo as it would be if it answered with rows[0] without looking at
\* the number of rows the UPDATE returned.
UpdateTodoUpdateUnchecked(r) ==
  /\ At(r, "updateTodo", "update")
  /\ \E fault \in BOOLEAN :
       LET rq == Sent(req[r])
           found == SelectTodoById(rq.id)
           target == RowSet(found.rows)
           updated == {UpdatedTodo(t, UpdateTodoSet(rq.body)) : t \in target}
       IN IF fault \/ ~found.ok
          THEN /\ UNCHANGED <<users, todo, userSeq, todoSeq, clients, deleted, created>>
               /\ Commit(r, IF fault THEN Unavailable(rq, UpdateTodoError)
                            ELSE Catch(rq, UpdateTodoError))
          ELSE /\ todo' = (todo \ target) \cup updated
               /\ created' = created \ target
               /\ UNCHANGED <<users, userSeq, todoSeq, clients, deleted>>
               /\ Commit(r, Respond(rq, 200, "", FirstRow(OrderById(updated))))

UpdateTodoUpdate(r) ==
  /\ At(r, "updateTodo", "update")
  /\ \E fault \in BOOLEAN :
       LET rq == Sent(req[r])
           found == SelectTodoById(rq.id)
           target == RowSet(found.rows)
           updated == {UpdatedTodo(t, UpdateTodoSet(rq.body)) : t \in target}
       IN IF fault \/ ~found.ok
          THEN /\ UNCHANGED <<users, todo, userSeq, todoSeq, clients, deleted, created>>
               /\ Commit(r, IF fault THEN Unavailable(rq, UpdateTodoError)
                            ELSE Catch(rq, UpdateTodoError))
          ELSE /\ todo' = (todo \ target) \cup updated
               /\ created' = created \ target
               /\ UNCHANGED <<users, userSeq, todoSeq, clients, deleted>>
               /\ Commit(r, IF updated = {}
                            THEN Respond(rq, 404, TodoNotFound, <<>>)
                            ELSE Respond(rq, 200, "", FirstRow(OrderById(updated))))

(***************************************************************************)
(* DELETE /api/todo/:id                                                    *)
(***************************************************************************)
\* deleteTodo as it would be if it sent its statement before looking at
\* the id: the 400 comes after a query.
DeleteTodoStartQueryFirst(r) ==
  /\ Accepts(r, "deleteTodo")
  /\ UNCHANGED <<users, todo, userSeq, todoSeq, clients, deleted, created>>
  /\ \E seg \in Segments :
       LET rq == Arrive("deleteTodo", seg, NoBody, "delete")
       IN Commit(r, IF isNaN(rq.id)
                    THEN Respond(Sent(rq), 400, InvalidId, <<>>)
                    ELSE rq)

DeleteTodoStart(r) ==
  /\ Accepts(r, "deleteTodo")
  /\ UNCHANGED <<users, todo, userSeq, todoSeq, clients, deleted, created>>
  /\ \E seg \in Segments :
       LET rq == Arrive("deleteTodo", seg, NoBody, "delete")
       IN Commit(r, IF isNaN(rq.id) THEN Respond(rq, 400, InvalidId, <<>>)
                    ELSE rq)

DeleteTodoDelete(r) ==
  /\ At(r, "deleteTodo", "delete")
  /\ \E fault \in BOOLEAN :
       LET rq == Sent(req[r])
           result == DeleteTodoById(rq.id)
       IN IF fault \/ ~result.ok
          THEN /\ UNCHANGED <<users, todo, userSeq, todoSeq, clients, deleted, created>>
               /\ Commit(r, IF fault THEN Unavailable(rq, DeleteTodoError)
                            ELSE Catch(rq, DeleteTodoError))
          ELSE /\ todo' = todo \ RowSet(result.rows)
               /\ deleted' = deleted \cup {x.id : x \in RowSet(result.rows)}
               /\ created' = created \ RowSet(result.rows)
               /\ UNCHANGED <<users, userSeq, todoSeq, clients>>
               /\ Commit(r, IF Len(result.rows) = 0
                            THEN Respond(rq, 404, TodoNotFound, <<>>)
                            ELSE Respond([rq EXCEPT !.removed = RowSet(result.rows)],
                                         200, "", FirstRow(result.rows)))

Init ==
  /\ users = SeedUsers
  /\ todo = {}
  /\ userSeq = 3
  /\ todoSeq = 1
  /\ req = [r \in Slots |-> IdleReq]
  /\ clients \in {1, MaxReq}
  /\ deleted = {}
  /\ created = {}

UsersStep(r) ==
  \/ ListUsersStart(r) \/ ListUsersSelect(r)
  \/ GetUserStart(r) \/ GetUserSelect(r)
  \/ CreateUserStart(r) \/ CreateUserCheck(r) \/ CreateUserInsert(r)
  \/ UpdateUserStart(r) \/ UpdateUserExists(r) \/ UpdateUserEmailCheck(r)
  \/ UpdateUserUpdate(r)
  \/ DeleteUserStart(r) \/ DeleteUserExists(r) \/ DeleteUserDelete(r)
  \/ Finish(r)

NextUsers == \E r \in Slots : UsersStep(r)

SpecUsers == Init /\ [][NextUsers]_vars

TodoStep(r) ==
  \/ ListTodosStart(r) \/ ListTodosSelect(r)
  \/ GetTodoStart(r) \/ GetTodoSelect(r)
  \/ CreateTodoStart(r) \/ CreateTodoInsert(r)
  \/ UpdateTodoStart(r) \/ UpdateTodoUpdate(r)
  \/ DeleteTodoStart(r) \/ DeleteTodoDelete(r)
  \/ Finish(r)

NextTodo == \E r \in Slots : TodoStep(r)

SpecTodo == Init /\ [][NextTodo]_vars

Next == \E r \in Slots : UsersStep(r) \/ TodoStep(r)

Spec == Init /\ [][Next]_vars

\* The step that ends an await: the query of the request in slot r is
\* answered or rejected and the handler runs on.
QueryStep(r) ==
  \/ ListUsersSelect(r) \/ GetUserSelect(r)
  \/ CreateUserCheck(r) \/ CreateUserInsert(r)
  \/ UpdateUserExists(r) \/ UpdateUserEmailCheck(r) \/ UpdateUserUpdate(r)
  \/ DeleteUserExists(r) \/ DeleteUserDelete(r)
  \/ ListTodosSelect(r) \/ GetTodoSelect(r)
  \/ CreateTodoInsert(r)
  \/ UpdateTodoUpdate(r)
  \/ DeleteTodoDelete(r)

\* One client, whose requests the service handles one after the other and
\* whose writes all go to one of the two tables: it sends requests to the
\* users endpoints while the table todo is as created, and to the todo
\* endpoints while the table users is as migrated.
InitSerial == Init /\ clients = 1

SendsToUsers == todo = {} /\ todoSeq = 1
SendsToTodo == users = SeedUsers

NextSerial ==
  \E r \in Slots :
    \/ SendsToUsers /\ ListUsersStart(r)
    \/ SendsToUsers /\ GetUserStart(r)
    \/ SendsToUsers /\ CreateUserStart(r)
    \/ SendsToUsers /\ UpdateUserStart(r)
    \/ SendsToUsers /\ DeleteUserStart(r)
    \/ SendsToTodo /\ ListTodosStart(r)
    \/ SendsToTodo /\ GetTodoStart(r)
    \/ SendsToTodo /\ CreateTodoStart(r)
    \/ SendsToTodo /\ UpdateTodoStart(r)
    \/ SendsToTodo /\ DeleteTodoStart(r)
    \/ QueryStep(r)
    \/ Finish(r)

\* Every query sent is answered or rejected in the end.
SpecFair ==
  InitSerial /\ [][NextSerial]_vars /\ \A r \in Slots : WF_vars(QueryStep(r))

(***************************************************************************)
(* The vocabulary of the properties.                                       *)
(***************************************************************************)
\* The values of the enumerated type todo_status.
TodoStatusEnum == {ToDo, InProgress, Done}

\* Slot r holds the response of a request to op.
Answered(r, op) == req[r].op = op /\ req[r].pc = "done"

\* The database answered every query of the request in slot r, and no other
\* request has changed a table since it arrived.
Undisturbed(r) == ~req[r].fault /\ req[r].quiet

Fold(c) ==
  CASE c = "A" -> "a"
    [] c = "B" -> "b"
    [] c = "C" -> "c"
    [] OTHER -> c

\* Two strings are equal up to letter case.
EqualIgnoringCase(a, b) ==
  Len(a) = Len(b) /\ \A i \in 1..Len(a) : Fold(a[i]) = Fold(b[i])

\* A non-empty string.
NonEmptyString(v) == IsString(v) /\ v.s # <<>>

\* An optional sign followed by decimal digits only.
IsIntegerLiteral(s) ==
  LET digits == IF s # <<>> /\ Head(s) \in {"-", "+"} THEN Tail(s) ELSE s
  IN /\ digits # <<>>
     /\ \A i \in 1..Len(digits) :
          \E d \in 1..Len(DecDigits) : DecDigits[d] = digits[i]

\* Row x has the id the request asked for.
HasId(x, id) == ~id.nan /\ ~id.beyond /\ x.id = id.n

IdEndpoints ==
  {"getUser", "updateUser", "deleteUser", "getTodo", "updateTodo", "deleteTodo"}

(***************************************************************************)
(* C1.  In every reachable state, whatever createTodo, updateTodo and      *)
(* deleteTodo requests were made, with valid or invalid bodies, every      *)
(* stored todo row has one of the statuses "To Do", "In Progress", "Done". *)
(***************************************************************************)
C1_StatusEnumerated == \A t \in todo : t.status \in TodoStatusEnum

\* An update has set a row's status to a value other than the default.
C1_Witness ==
  \E r \in Slots :
    /\ Answered(r, "updateTodo") /\ req[r].code = 200
    /\ req[r].body.status # Undefined
    /\ \E t \in todo : /\ HasId(t, req[r].id)
                       /\ t.status = req[r].body.status.s
                       /\ t.status # ToDo

(***************************************************************************)
(* C2.  In every reachable state, under any interleaving of createUser,    *)
(* updateUser and deleteUser requests, no two distinct stored user rows    *)
(* have emails that are equal after lowercasing.                           *)
(***************************************************************************)
C2_UniqueEmails ==
  \A u, v \in users : u # v => ~EqualIgnoringCase(u.email, v.email)

\* Two createUser requests with the same email up to case have both passed
\* the duplicate check and sent their INSERT.
C2_Witness ==
  \E r1, r2 \in Slots :
    /\ r1 # r2
    /\ Answered(r1, "createUser") /\ Answered(r2, "createUser")
    /\ req[r1].queries = 2 /\ req[r2].queries = 2
    /\ ~req[r1].fault /\ ~req[r2].fault
    /\ req[r1].body.email # req[r2].body.email
    /\ EqualIgnoringCase(req[r1].body.email.s, req[r2].body.email.s)

(***************************************************************************)
(* C3.  Two createUser requests issued one after the other, with non-empty *)
(* names and the same email up to letter case, starting from a store in    *)
(* which no user owns that email, yield exactly one 201 and one 409.       *)
(***************************************************************************)
C3_OneSuccessOneDuplicate ==
  \A r1, r2 \in Slots :
    ( /\ Answered(r1, "createUser") /\ Answered(r2, "createUser")
      /\ r1 \in req[r2].seen
      /\ Undisturbed(r1) /\ Undisturbed(r2)
      /\ NonEmptyString(req[r1].body.name) /\ NonEmptyString(req[r2].body.name)
      /\ NonEmptyString(req[r1].body.email) /\ NonEmptyString(req[r2].body.email)
      /\ EqualIgnoringCase(req[r1].body.email.s, req[r2].body.email.s)
      /\ \A u \in req[r1].preUsers :
           ~EqualIgnoringCase(u.email, req[r1].body.email.s) )
    => {req[r1].code, req[r2].code} = {201, 409}

(***************************************************************************)
(* C4.  createUser with a non-empty name and a non-empty email that no     *)
(* stored user owns responds 201 and adds exactly one user row, whose name *)
(* is the trimmed name, whose email is the trimmed and lowercased email    *)
(* and whose password is the password as given; the response carries that  *)
(* row.                                                                    *)
(***************************************************************************)
C4_CreateUserSucceeds ==
  \A r \in Slots :
    ( /\ Answered(r, "createUser") /\ Undisturbed(r)
      /\ NonEmptyString(req[r].body.name) /\ NonEmptyString(req[r].body.email)
      /\ \A u \in req[r].preUsers :
           /\ ~EqualIgnoringCase(u.email, req[r].body.email.s)
           /\ ~EqualIgnoringCase(u.email, Trim(req[r].body.email.s)) )
    => /\ req[r].code = 201
       /\ \E row \in users \ req[r].preUsers :
            /\ users = req[r].preUsers \cup {row}
            /\ req[r].out = <<row>>
            /\ row.name = Trim(req[r].body.name.s)
            /\ EqualIgnoringCase(row.email, Trim(req[r].body.email.s))
            /\ \A i \in 1..Len(row.email) : row.email[i] = Fold(row.email[i])
            /\ row.password = PgText(req[r].body.password)

(***************************************************************************)
(* C5.  createUser with a non-empty name and email responds 409,           *)
(* DuplicateEmail, whenever some stored user's email equals the submitted  *)
(* email up to letter case, and then the table users is unchanged.         *)
(***************************************************************************)
C5_DuplicateEmailRejected ==
  \A r \in Slots :
    ( /\ Answered(r, "createUser") /\ Undisturbed(r)
      /\ Truthy(req[r].body.name) /\ NonEmptyString(req[r].body.email)
      /\ \E u \in req[r].preUsers :
           EqualIgnoringCase(u.email, req[r].body.email.s) )
    => /\ req[r].code = 409
       /\ req[r].error = DuplicateEmail
       /\ users = req[r].preUsers

\* A createUser whose email differs from a stored one in case only got 409.
C5_Witness ==
  \E r \in Slots :
    /\ Answered(r, "createUser") /\ Undisturbed(r)
    /\ req[r].code = 409
    /\ \E u \in users : /\ u.email # req[r].body.email.s
                        /\ EqualIgnoringCase(u.email, req[r].body.email.s)

(***************************************************************************)
(* C6.  updateUser with the numeric id of an existing user, a non-empty    *)
(* name and a non-empty email that no other user owns responds 200,        *)
(* overwrites the row's name, email and password with the trimmed name,    *)
(* the trimmed and lowercased email and the password as given, and returns *)
(* the updated row.                                                        *)
(***************************************************************************)
C6_UpdateUserSucceeds ==
  \A r \in Slots :
    ( /\ Answered(r, "updateUser") /\ Undisturbed(r)
      /\ IsIntegerLiteral(req[r].seg)
      /\ NonEmptyString(req[r].body.name) /\ NonEmptyString(req[r].body.email)
      /\ \E u \in req[r].preUsers : HasId(u, req[r].id)
      /\ \A u \in req[r].preUsers :
           ~HasId(u, req[r].id) =>
             /\ ~EqualIgnoringCase(u.email, req[r].body.email.s)
             /\ ~EqualIgnoringCase(u.email, Trim(req[r].body.email.s)) )
    => /\ req[r].code = 200
       /\ \E row \in users :
            /\ HasId(row, req[r].id)
            /\ req[r].out = <<row>>
            /\ users = {u \in req[r].preUsers : ~HasId(u, req[r].id)} \cup {row}
            /\ row.name = Trim(req[r].body.name.s)
            /\ EqualIgnoringCase(row.email, Trim(req[r].body.email.s))
            /\ \A i \in 1..Len(row.email) : row.email[i] = Fold(row.email[i])
            /\ row.password = PgText(req[r].body.password)

(***************************************************************************)
(* C7.  updateUser with a numeric id and a non-empty name and email        *)
(* responds 404 if no user has that id, and otherwise 409 exactly when a   *)
(* user with a different id owns the lowercased email; in both error cases *)
(* the table users is unchanged.                                           *)
(***************************************************************************)
C7_UpdateUserErrors ==
  \A r \in Slots :
    ( /\ Answered(r, "updateUser") /\ Undisturbed(r)
      /\ IsIntegerLiteral(req[r].seg)
      /\ NonEmptyString(req[r].body.name) /\ NonEmptyString(req[r].body.email) )
    => LET exists == \E u \in req[r].preUsers : HasId(u, req[r].id)
           owned == \E u \in req[r].preUsers :
                      /\ ~HasId(u, req[r].id)
                      /\ LET e == req[r].body.email.s
                         IN u.email = [i \in 1..Len(e) |-> Fold(e[i])]
       IN /\ ~exists => req[r].code = 404
          /\ exists => (req[r].code = 409 <=> owned)
          /\ req[r].code \in {404, 409} => users = req[r].preUsers

(***************************************************************************)
(* C8.  Under any interleaving of requests, deleteUser with a numeric id   *)
(* responds 404 when the call removes no user row, and every 200 response  *)
(* of deleteUser carries the user row that this call removed.  (Stated for *)
(* the ids the column holds.)                                              *)
(***************************************************************************)
C8_DeleteUserReturnsRemoved ==
  \A r \in Slots :
    ( /\ Answered(r, "deleteUser") /\ ~req[r].fault
      /\ IsIntegerLiteral(req[r].seg) /\ ~req[r].id.beyond )
    => /\ req[r].removed = {} => req[r].code = 404
       /\ req[r].code = 200 =>
            /\ req[r].out # <<>>
            /\ RowSet(req[r].out) = req[r].removed

(***************************************************************************)
(* C9.  For every numeric id i, getUser(i) and getTodo(i) respond 404 if   *)
(* and only if the store holds no row with id i at the time of the call;   *)
(* otherwise they respond 200 with that row.                               *)
(***************************************************************************)
C9_GetFindsRow ==
  \A r \in Slots :
    ( /\ Answered(r, "getUser") \/ Answered(r, "getTodo")
      /\ Undisturbed(r)
      /\ ~isNaN(req[r].id) )
    => LET table == IF req[r].op = "getUser" THEN req[r].preUsers
                    ELSE req[r].preTodo
           rows == {x \in table : HasId(x, req[r].id)}
       IN /\ req[r].code = 404 <=> rows = {}
          /\ rows # {} => req[r].code = 200 /\ RowSet(req[r].out) = rows

(***************************************************************************)
(* C10.  On every :id endpoint (GET, PUT and DELETE of /api/users/:id and  *)
(* /api/todo/:id) a path segment that is not a base-10 integer literal is  *)
(* answered 400 with error "ID inválido", whatever the body.               *)
(***************************************************************************)
C10_NonIntegerSegmentRejected ==
  \A r \in Slots :
    ( /\ req[r].op \in IdEndpoints /\ req[r].pc = "done"
      /\ ~IsIntegerLiteral(req[r].seg) )
    => /\ req[r].code = 400
       /\ req[r].error = InvalidId

(***************************************************************************)
(* C11.  In every handler a 400 response (InvalidId, IncompleteData,       *)
(* InvalidStatus, NoUpdateData) is sent before any query: a request        *)
(* answered 400 has sent no statement to the database, has removed no row, *)
(* and the tables are as they were when it arrived.                        *)
(***************************************************************************)
C11_BadRequestBeforeAnyQuery ==
  \A r \in Slots :
    (req[r].pc = "done" /\ req[r].code = 400)
    => /\ req[r].error \in {InvalidId, IncompleteData, InvalidStatus, NoUpdateData}
       /\ req[r].queries = 0
       /\ req[r].removed = {}
       /\ req[r].quiet => users = req[r].preUsers /\ todo = req[r].preTodo

\* An updateTodo aimed at a stored row was answered 400 for its status.
C11_Witness ==
  \E r \in Slots :
    /\ Answered(r, "updateTodo")
    /\ req[r].code = 400 /\ req[r].error = InvalidStatus
    /\ \E t \in todo : HasId(t, req[r].id)

\* The value is one of the three status strings.
IsValidStatus(v) == IsString(v) /\ v.s \in TodoStatusEnum

(***************************************************************************)
(* C12.  createTodo (with a title), or updateTodo with a numeric id, given *)
(* a status that is supplied (anything other than undefined) and is not    *)
(* one of "To Do", "In Progress", "Done" always responds InvalidStatus     *)
(* (400, error "Estado inválido") and performs no write.                   *)
(***************************************************************************)
C12_InvalidStatusRejected ==
  \A r \in Slots :
    ( /\ \/ Answered(r, "createTodo") /\ NonEmptyString(req[r].body.title)
         \/ Answered(r, "updateTodo") /\ IsIntegerLiteral(req[r].seg)
      /\ req[r].body.status # Undefined
      /\ ~IsValidStatus(req[r].body.status) )
    => /\ req[r].code = 400
       /\ req[r].error = "Estado inválido"
       /\ req[r].queries = 0
       /\ req[r].quiet => todo = req[r].preTodo

\* A description as the data model types it: absent, null or a string.
IsDescription(v) == v \in {Undefined, Null} \/ IsString(v)

(***************************************************************************)
(* C13.  createTodo with a title (a non-empty string) and no status field  *)
(* always responds 201 and creates a row whose status is "To Do".          *)
(***************************************************************************)
C13_DefaultStatus ==
  \A r \in Slots :
    ( /\ Answered(r, "createTodo") /\ Undisturbed(r)
      /\ NonEmptyString(req[r].body.title)
      /\ req[r].body.status = Undefined
      /\ IsDescription(req[r].body.description) )
    => /\ req[r].code = 201
       /\ \E row \in todo \ req[r].preTodo :
            /\ req[r].out = <<row>>
            /\ row.status = <<"T", "o", " ", "D", "o">>

\* A createTodo without a status field was answered 201.
C13_Witness ==
  \E r \in Slots :
    /\ Answered(r, "createTodo") /\ Undisturbed(r)
    /\ req[r].body.status = Undefined
    /\ req[r].code = 201
    /\ \E row \in todo : req[r].out = <<row>>

\* The positions of s that hold something other than a space.
Inked(s) == {i \in 1..Len(s) : s[i] # " "}

\* s without the spaces at its two ends.
Stripped(s) ==
  IF Inked(s) = {} THEN <<>>
  ELSE LET first == CHOOSE i \in Inked(s) : \A j \in Inked(s) : i <= j
           last == CHOOSE i \in Inked(s) : \A j \in Inked(s) : j <= i
       IN SubSeq(s, first, last)

(***************************************************************************)
(* C14.  createTodo with a title and a valid or absent status responds 201 *)
(* and adds exactly one todo row, whose title is the trimmed title, whose  *)
(* status is the given status (or "To Do") and whose description is the    *)
(* trimmed description, or null when none is given; the response carries   *)
(* that row.                                                               *)
(***************************************************************************)
C14_CreateTodoRow ==
  \A r \in Slots :
    ( /\ Answered(r, "createTodo") /\ Undisturbed(r)
      /\ NonEmptyString(req[r].body.title)
      /\ req[r].body.status = Undefined \/ IsValidStatus(req[r].body.status)
      /\ IsDescription(req[r].body.description) )
    => /\ req[r].code = 201
       /\ \E row \in todo \ req[r].preTodo :
            /\ todo = req[r].preTodo \cup {row}
            /\ req[r].out = <<row>>
            /\ row.title = Stripped(req[r].body.title.s)
            /\ row.status = IF req[r].body.status = Undefined
                            THEN <<"T", "o", " ", "D", "o">>
                            ELSE req[r].body.status.s
            /\ row.description =
                 IF NonEmptyString(req[r].body.description)
                 THEN Str(Stripped(req[r].body.description.s))
                 ELSE Null

\* A createTodo with a status and a description to trim was answered 201.
C14_Witness ==
  \E r \in Slots :
    /\ Answered(r, "createTodo") /\ Undisturbed(r)
    /\ req[r].code = 201
    /\ IsValidStatus(req[r].body.status)
    /\ NonEmptyString(req[r].body.description)
    /\ req[r].body.description.s # Stripped(req[r].body.description.s)
    /\ req[r].body.title.s # Stripped(req[r].body.title.s)

(***************************************************************************)
(* C15.  createTodo whose body has no title (absent, null or the empty     *)
(* string) responds IncompleteData (400, error "Datos incompletos")        *)
(* whatever the other fields are, and adds no row.                         *)
(***************************************************************************)
C15_MissingTitleRejected ==
  \A r \in Slots :
    ( /\ Answered(r, "createTodo")
      /\ req[r].body.title \in {Undefined, Null, Str(<<>>)} )
    => /\ req[r].code = 400
       /\ req[r].error = "Datos incompletos"
       /\ req[r].queries = 0
       /\ req[r].quiet => todo = req[r].preTodo

\* A createTodo with an empty title and the other fields filled in was
\* answered 400.
C15_Witness ==
  \E r \in Slots :
    /\ Answered(r, "createTodo")
    /\ req[r].body.title = Str(<<>>)
    /\ IsValidStatus(req[r].body.status)
    /\ NonEmptyString(req[r].body.description)
    /\ req[r].code = 400 /\ req[r].error = "Datos incompletos"

(***************************************************************************)
(* C16.  updateTodo with a numeric id and a body in which title, status    *)
(* and description are all undefined responds NoUpdateData (400, error     *)
(* "No hay datos para actualizar") and performs no write, whether or not a *)
(* row with that id exists.                                                *)
(***************************************************************************)
C16_EmptyUpdateRejected ==
  \A r \in Slots :
    ( /\ Answered(r, "updateTodo")
      /\ IsIntegerLiteral(req[r].seg)
      /\ req[r].body.title = Undefined
      /\ req[r].body.status = Undefined
      /\ req[r].body.description = Undefined )
    => /\ req[r].code = 400
       /\ req[r].error = "No hay datos para actualizar"
       /\ req[r].queries = 0
       /\ req[r].quiet => todo = req[r].preTodo

\* An updateTodo with an empty body, aimed at a stored row, was answered.
C16_Witness ==
  \E r \in Slots :
    /\ Answered(r, "updateTodo")
    /\ IsIntegerLiteral(req[r].seg)
    /\ req[r].body = NoBody
    /\ req[r].code = 400
    /\ \E t \in todo : HasId(t, req[r].id)

C18_UpdateTodoNotFound ==
  \A r \in Slots :
    ( /\ Answered(r, "updateTodo") /\ Undisturbed(r)
      /\ req[r].body.title = Undefined \/ IsString(req[r].body.title)
      /\ IsDescription(req[r].body.description) )
    => LET numeric == ~isNaN(req[r].id)
           supplied == \E c \in {"title", "status", "description"} :
                         req[r].body[c] # Undefined
           statusOk == \/ req[r].body.status = Undefined
                       \/ IsValidStatus(req[r].body.status)
           absent == ~\E t \in req[r].preTodo : HasId(t, req[r].id)
           notFound == req[r].code = 404 /\ req[r].error = "Tarea no encontrada"
       IN /\ notFound <=> (numeric /\ supplied /\ statusOk /\ absent)
          /\ ~numeric => req[r].code = 400 /\ req[r].error = "ID inválido"
          /\ (numeric /\ ~supplied) =>
               req[r].code = 400 /\ req[r].error = "No hay datos para actualizar"
          /\ (numeric /\ supplied /\ ~statusOk) =>
               req[r].code = 400 /\ req[r].error = "Estado inválido"
          /\ notFound => todo = req[r].preTodo

(***************************************************************************)
(* C19.  Under any interleaving of requests, deleteTodo with a numeric id  *)
(* responds 200 with the deleted row exactly when this call removed a row  *)
(* with that id, and NotFound (404) otherwise; for each todo row at most   *)
(* one deleteTodo call ever responds 200.                                  *)
(***************************************************************************)
C19_DeleteTodoOnce ==
  /\ \A r \in Slots :
       ( /\ Answered(r, "deleteTodo") /\ ~req[r].fault
         /\ IsIntegerLiteral(req[r].seg) )
       => /\ req[r].code = 200 <=> req[r].removed # {}
          /\ req[r].code = 200 =>
               /\ req[r].out # <<>>
               /\ RowSet(req[r].out) = req[r].removed
               /\ \A x \in req[r].removed : HasId(x, req[r].id)
          /\ req[r].removed = {} =>
               req[r].code = 404 /\ req[r].error = "Tarea no encontrada"
  /\ \A r1, r2 \in Slots :
       ( /\ r1 # r2
         /\ Answered(r1, "deleteTodo") /\ req[r1].code = 200
         /\ Answered(r2, "deleteTodo") /\ req[r2].code = 200 )
       => req[r1].removed \cap req[r2].removed = {}

(***************************************************************************)
(* C20.  After a deleteTodo(id) that responded 200, every later            *)
(* getTodo(id) responds NotFound (404), whatever other create, update or   *)
(* delete requests happen in between: whenever getTodo's SELECT is         *)
(* answered for an id a deleteTodo has responded 200 for, the response is  *)
(* 404 "Tarea no encontrada".                                              *)
(***************************************************************************)
C20_DeletedStaysGone ==
  [][ \A r \in Slots :
        ( /\ At(r, "getTodo", "select")
          /\ req'[r].pc = "done" /\ ~req'[r].fault
          /\ ~req[r].id.beyond /\ req[r].id.n \in deleted )
        => req'[r].code = 404 /\ req'[r].error = "Tarea no encontrada" ]_vars

\* A getTodo for a deleted id was answered after a later row was created.
C20_Witness ==
  \E r \in Slots :
    /\ Answered(r, "getTodo") /\ ~req[r].fault
    /\ ~req[r].id.beyond /\ req[r].id.n \in deleted
    /\ req[r].code = 404
    /\ \E t \in todo : t.id > req[r].id.n

(***************************************************************************)
(* C21.  Round trip: after createTodo with a title and no status responded *)
(* 201 with a row of id i, a getTodo(i) answered before any update or      *)
(* delete of i responds 200 with a row that has the same title and the     *)
(* same status ("To Do") as the row the create returned.                   *)
(***************************************************************************)
C21_CreateGetRoundTrip ==
  [][ \A r \in Slots :
        ( /\ At(r, "getTodo", "select")
          /\ req'[r].pc = "done" /\ ~req'[r].fault )
        => \A c \in created :
             HasId(c, req[r].id)
             => /\ req'[r].code = 200
                /\ \E x \in todo :
                     /\ req'[r].out = <<x>>
                     /\ x.id = c.id
                     /\ x.title = c.title
                     /\ x.status = c.status
                     /\ x.status = <<"T", "o", " ", "D", "o">> ]_vars

\* A getTodo was answered for a row created without a status, while another
\* row with another title is stored.
C21_Witness ==
  \E r \in Slots :
    /\ Answered(r, "getTodo") /\ req[r].code = 200
    /\ \E c \in created :
         /\ HasId(c, req[r].id)
         /\ req[r].out = <<c>>
         /\ \E t \in todo : t.id # c.id /\ t.title # c.title

(***************************************************************************)
(* C22.  The status of a todo item follows a three-state machine with no   *)
(* automatic transitions: a row's status changes only in an updateTodo     *)
(* step that supplies a status, and from each of the three statuses each   *)
(* of the other two is reachable by one such update (an updateTodo that    *)
(* supplies one of the three statuses for a stored row leaves the row with *)
(* that status, whatever its status was).                                  *)
(***************************************************************************)
C22_StatusMachine ==
  [][ /\ \A old \in todo, new \in todo' :
           (new.id = old.id /\ new.status # old.status)
           => \E r \in Slots :
                /\ At(r, "updateTodo", "update")
                /\ req'[r].pc = "done" /\ req'[r].code = 200
                /\ HasId(old, req[r].id)
                /\ req[r].body.status # Undefined
                /\ new.status = req[r].body.status.s
      /\ \A r \in Slots, old \in todo :
           ( /\ At(r, "updateTodo", "update")
             /\ req'[r].pc = "done" /\ ~req'[r].fault
             /\ HasId(old, req[r].id)
             /\ IsValidStatus(req[r].body.status) )
           => /\ req'[r].code = 200
              /\ \E new \in todo' :
                   new.id = old.id /\ new.status = req[r].body.status.s ]_vars

\* An update has moved a row from "Done" back to "To Do".
C22_Witness ==
  \E r \in Slots :
    /\ Answered(r, "updateTodo") /\ Undisturbed(r)
    /\ req[r].code = 200
    /\ req[r].body.status = Str(ToDo)
    /\ \E old \in req[r].preTodo, new \in todo :
         /\ HasId(old, req[r].id) /\ new.id = old.id
         /\ old.status = Done /\ new.status = ToDo

\* C23: the pre-check of createUser does not see a concurrent createUser:
\* when a request's SELECT by email is answered while another createUser
\* with the same lowercased email has passed its own pre-check and no stored
\* row holds that email, the request is not answered 409 and goes on to its
\* INSERT.
C23_BothPassPreCheck ==
  [][ \A r \in Slots, o \in Slots :
        ( /\ r # o
          /\ At(r, "createUser", "check")
          /\ At(o, "createUser", "insert")
          /\ HasStringMethods(req[r].body.name)
          /\ ToLowerCase(req[r].body.email.s) = ToLowerCase(req[o].body.email.s)
          /\ \A u \in users : u.email # ToLowerCase(req[r].body.email.s)
          /\ req'[r].queries = req[r].queries + 1
          /\ ~req'[r].fault )
        => /\ req'[r].pc = "insert"
           /\ req'[r].code # 409
           /\ req'[o].pc = "insert" ]_vars

\* Two createUser requests with the same lowercased email are in flight
\* together: each has sent its SELECT, neither was answered 409, and both
\* are about to send their INSERT.
C23_Witness ==
  \E r \in Slots, o \in Slots :
    /\ r # o
    /\ At(r, "createUser", "insert") /\ At(o, "createUser", "insert")
    /\ ToLowerCase(req[r].body.email.s) = ToLowerCase(req[o].body.email.s)
    /\ req[r].queries = 1 /\ req[o].queries = 1
    /\ ENABLED CreateUserInsert(r) /\ ENABLED CreateUserInsert(o)

\* The error text of the catch block of each handler.
ServerError(op) ==
  CASE op \in {"listUsers", "getUser"} -> UsersQueryError
    [] op = "createUser" -> CreateUserError
    [] op = "updateUser" -> UpdateUserError
    [] op = "deleteUser" -> DeleteUserError
    [] op = "listTodos" -> ListTodoError
    [] op = "getTodo" -> GetTodoError
    [] op = "createTodo" -> CreateTodoError
    [] op = "updateTodo" -> UpdateTodoError
    [] op = "deleteTodo" -> DeleteTodoError
    [] OTHER -> ""

\* C24: a request one of whose queries failed is answered 500 with the error
\* text of its handler and no row, and the service goes on: the slot can be
\* given up for the next request and the free slots take requests.
C24_QueryFailureAnswered ==
  \A r \in Slots :
    req[r].fault
    => /\ req[r].pc = "done"
       /\ req[r].code = 500
       /\ req[r].error = ServerError(req[r].op)
       /\ req[r].out = <<>>
       /\ ENABLED Finish(r)
       /\ \A o \in Slots :
            (req[o].pc = "idle" /\ o <= clients)
            => ENABLED DeleteUserStart(o) /\ ENABLED DeleteTodoStart(o)

\* A query of one request failed and the request was answered 500; a request
\* that arrived after that response has been served with a 201.
C24_Witness ==
  \E r \in Slots, o \in Slots :
    /\ r # o
    /\ req[r].fault /\ req[r].pc = "done" /\ req[r].code = 500
    /\ r \in req[o].seen
    /\ Answered(o, "createTodo") /\ req[o].code = 201 /\ ~req[o].fault

\* C25: a request is answered 500 only when one of its database queries
\* failed: a request answered 500 has sent a query, and no 500 comes from an
\* exception thrown by the handler's own code.
C25_ServerErrorOnlyOnQueryFailure ==
  \A r \in Slots :
    (req[r].pc = "done" /\ req[r].code = 500)
    => req[r].queries > 0 /\ ~req[r].threw

\* rs holds every row of the table, once each, in strictly ascending order
\* of id.
ListsTable(rs, table) ==
  /\ RowSet(rs) = table
  /\ Len(rs) = Cardinality(table)
  /\ \A i \in 1..Len(rs), j \in 1..Len(rs) : i < j => rs[i].id < rs[j].id

\* C26: listTodos and listUsers, when their query is answered, respond 200
\* with all the rows the table holds, in strictly ascending order of id: the
\* empty array when the table holds no row.
C26_ListsAllRowsAscending ==
  \A r \in Slots :
    /\ (Answered(r, "listTodos") /\ Undisturbed(r))
       => /\ req[r].code = 200
          /\ ListsTable(req[r].out, todo)
          /\ todo = {} => req[r].out = <<>>
    /\ (Answered(r, "listUsers") /\ Undisturbed(r))
       => /\ req[r].code = 200
          /\ ListsTable(req[r].out, users)
          /\ users = {} => req[r].out = <<>>

\* listTodos was answered with the two rows of the table, the row created
\* first ahead of the row created second.
C26_Witness ==
  \E r \in Slots :
    /\ Answered(r, "listTodos") /\ Undisturbed(r)
    /\ req[r].code = 200
    /\ Len(req[r].out) = 2
    /\ req[r].out[1].id = 1 /\ req[r].out[2].id = 2

\* C27: every stored todo row has a title that is not empty and has no
\* space at either end.
C27_StoredTitleTrimmedNonEmpty ==
  \A t \in todo : t.title # <<>> /\ Stripped(t.title) = t.title

\* C28: the answer of updateTodo is decided by its one UPDATE statement,
\* whatever deleteTodo requests run beside it: when the statement is
\* answered, the response is 200 with the updated row if the table holds a
\* row with the id at that moment and 404 with no row otherwise, and the
\* request has sent no other query.
C28_UpdateAnswersFromItsStatement ==
  [][ \A r \in Slots :
        ( /\ At(r, "updateTodo", "update")
          /\ req'[r].pc = "done"
          /\ ~req'[r].fault /\ ~req[r].id.beyond )
        => /\ req'[r].queries = 1
           /\ IF \E t \in todo : HasId(t, req[r].id)
              THEN /\ req'[r].code = 200
                   /\ \E x \in todo' :
                        req'[r].out = <<x>> /\ HasId(x, req[r].id)
              ELSE /\ req'[r].code = 404
                   /\ req'[r].error = TodoNotFound
                   /\ req'[r].out = <<>>
                   /\ todo' = todo ]_vars

\* An updateTodo and a deleteTodo on the same id were in flight together:
\* the delete removed the row and was answered 200, and the update, whose
\* statement came second, was answered 404.
C28_Witness ==
  \E r \in Slots, o \in Slots :
    /\ r # o
    /\ Answered(r, "updateTodo") /\ Answered(o, "deleteTodo")
    /\ o \notin req[r].seen /\ r \notin req[o].seen
    /\ req[o].code = 200
    /\ \E x \in req[o].removed : HasId(x, req[r].id)
    /\ ~req[r].fault
    /\ req[r].code = 404 /\ req[r].out = <<>>

UsersOps == {"listUsers", "getUser", "createUser", "updateUser", "deleteUser"}
TodoOps == {"listTodos", "getTodo", "createTodo", "updateTodo", "deleteTodo"}

\* The rows of a table whose id is not the id of the request.
OtherRows(table, id) == {x \in table : ~HasId(x, id)}

\* C29: a step of a handler changes nothing but what its request names:
\* updateTodo and deleteTodo (and updateUser and deleteUser) leave the rows
\* with another id as they are and add none, createTodo keeps every stored
\* row, the reads change no table, the todo handlers leave users alone and
\* the users handlers leave todo alone.
C29_OtherRowsUnchanged ==
  [][ \A r \in Slots :
        req'[r].pc # req[r].pc
        => LET rq == IF req[r].pc = "idle" THEN req'[r] ELSE req[r]
           IN /\ rq.op \in TodoOps => users' = users /\ userSeq' = userSeq
              /\ rq.op \in UsersOps => todo' = todo /\ todoSeq' = todoSeq
              /\ rq.op \in {"updateTodo", "deleteTodo"}
                 => OtherRows(todo', rq.id) = OtherRows(todo, rq.id)
              /\ rq.op \in {"updateUser", "deleteUser"}
                 => OtherRows(users', rq.id) = OtherRows(users, rq.id)
              /\ rq.op = "createTodo" => todo \subseteq todo'
              /\ rq.op = "createUser" => users \subseteq users'
              /\ rq.op \in Reads => users' = users /\ todo' = todo ]_vars

\* deleteTodo removed the row of its id from a table that held a row with
\* another id, and that row is still stored.
C29_Witness ==
  \E r \in Slots :
    /\ Answered(r, "deleteTodo") /\ Undisturbed(r)
    /\ req[r].code = 200
    /\ req[r].removed # {}
    /\ \E t \in req[r].preTodo : ~HasId(t, req[r].id) /\ t \in todo
    /\ users = req[r].preUsers

\* C30: every request receives exactly one response.  No request has more
\* than one response written, a request is over exactly when its one
\* response is written, a response once written is not changed, and, every
\* query being answered or rejected in the end, a request waiting on a query
\* is answered.
C30_ExactlyOneResponse ==
  /\ [](\A r \in Slots :
          /\ req[r].sent <= 1
          /\ req[r].pc = "done" <=> req[r].sent = 1)
  /\ [][ \A r \in Slots :
           req[r].pc = "done"
           => \/ req'[r] = IdleReq
              \/ /\ req'[r].pc = "done" /\ req'[r].sent = 1
                 /\ req'[r].code = req[r].code
                 /\ req'[r].error = req[r].error
                 /\ req'[r].out = req[r].out ]_vars
  /\ \A r \in Slots : InFlight(r) ~> (req[r].pc = "done")

\* updateUser, the handler with the most awaits, has been answered after
\* its three queries, with one response.
C30_Witness ==
  \E r \in Slots :
    /\ Answered(r, "updateUser")
    /\ req[r].queries = 3
    /\ req[r].sent = 1

====
